---- MODULE Spec2Model ----
(***************************************************************************)
(* Model of backend/app.py: the /api/atfood request pipeline               *)
(* (authenticate, rate-limit, render, generate, cost, persist, respond),   *)
(* the in-process sliding-window rate limiter and the startup schema step  *)
(* of the conversation store.                                              *)
(*                                                                         *)
(* The endpoint is a plain "def" handler, which the server runs on a       *)
(* worker thread pool: several requests execute atfood_endpoint at the     *)
(* same time and share _rate_buckets without a lock.  A thread switch can  *)
(* happen between any two bytecodes, so every access of a shared object    *)
(* (the clock, a deque, the database) is one step of a thread.             *)
(***************************************************************************)
EXTENDS Integers, Sequences, FiniteSets

(***************************************************************************)
(* Bounds of the model.                                                    *)
(***************************************************************************)
\* Largest reading of time.monotonic() (whole seconds).
MaxTime == 3
\* Requests received over one run of the process: by the thread pool (Spec)
\* and by a server that handles one request at a time (SeqSpec).
MaxCalls == 3
MaxSeqCalls == 4
MaxAuthCalls == 3
\* Requests a server receives in the specifications that start from
\* ServedOne, the one it has handled included.
MaxServedCalls == 2
\* Requests of the sequence that is served twice (TwinSpec), the one the
\* server has handled before it included.
MaxTwinCalls == 3
\* Times the process is started against the same database (SchemaSpec).
MaxStarts == 2

\* app.py:142-143 read both from the environment (defaults 30 and 60); the
\* model runs the limiter with a small limit and a short window.
RATE_LIMIT_REQUESTS == 2
RATE_LIMIT_WINDOW_SECONDS == 2

(***************************************************************************)
(* Values.                                                                 *)
(***************************************************************************)
\* Python's None where a string is expected (an absent header, an unset
\* environment variable, a missing optional field).
None == "None"

\* Truth value of an Optional[str]: None and "" are both false.
Truthy(s) == s # None /\ s # ""

\* Worker threads of the server's pool.
Threads == {"t1", "t2"}

\* request.client.host of the callers; NoClient is a request whose
\* request.client is None.
NoClient == "<no client>"
ClientHosts == {"10.0.0.1"}

\* Keys of _rate_buckets the model can create.
ClientKeys == ClientHosts \cup {"unknown"}

\* Values of ATFOOD_API_TOKEN (unset, or a shared secret).
ApiTokenSettings == {None, "s3cret"}

\* Values of the X-ATFOOD-TOKEN header: absent, empty, the secret, another.
TokenHeaders == {None, "", "s3cret", "wrong"}

\* Values of the X-ATFOOD-USER header: absent, blank, a name.
UserHeaders == {None, " ", "ann"}

\* Actions a request may name: one registered template and one that is not
\* (AtfoodRequest.action is any string of 1..64 characters).
RequestActions == {"open_ai_kitchen", "no_such_action"}

\* RECIPE_CONTEXT: the recipes, their titles and the first words of their
\* blurbs.
RecipeIds == {"chili_crisp_noodles", "charred_lemon_chicken", "silky_tomato_soup"}
RecipeTitle(id) ==
    CASE id = "chili_crisp_noodles" -> "15-minute chili crisp noodles"
      [] id = "charred_lemon_chicken" -> "Charred lemon chicken + herbs"
      [] id = "silky_tomato_soup" -> "Silky tomato soup (no sadness)"
RecipeBlurb(id) ==
    CASE id = "chili_crisp_noodles" -> "Heat, crunch, and a sauce that clings."
      [] id = "charred_lemon_chicken" -> "Weeknight-perfect, restaurant aroma."
      [] id = "silky_tomato_soup" -> "Roast the tomatoes."

\* "x or ''" of an optional string.
OrEmpty(s) == IF Truthy(s) THEN s ELSE ""

\* A rendered "Field: value" line; an f-string renders None as the text None.
Line(field, value) == [field |-> field, value |-> value]

\* Keys of ACTION_PROMPTS.
PromptActions == {"open_ai_kitchen", "world_picks", "food_era", "adjust_recipe", "critic_notes"}

\* ACTION_PROMPTS[action](req): the header line and the field lines of the
\* template (the fixed goal lines carry no request data).
ACTION_PROMPTS(action, req) ==
    CASE action \in {"open_ai_kitchen", "world_picks", "food_era"} ->
           <<Line("ACTION", action), Line("User text", OrEmpty(req.user_text))>>
      [] action = "adjust_recipe" ->
           <<Line("ACTION", action),
             Line("Recipe", IF OrEmpty(req.recipe_id) \in RecipeIds
                            THEN RecipeTitle(req.recipe_id) ELSE req.recipe_id),
             Line("Recipe blurb", IF OrEmpty(req.recipe_id) \in RecipeIds
                                  THEN RecipeBlurb(req.recipe_id) ELSE ""),
             Line("User constraints/request", OrEmpty(req.user_text))>>
      [] action = "critic_notes" ->
           <<Line("ACTION", action), Line("Topic", OrEmpty(req.critic_topic)),
             Line("User text", OrEmpty(req.user_text))>>

\* Characters of a model output: a blank and a letter.  A text is a sequence
\* of characters.
Blank == " "
IsSpace(c) == c = Blank

\* str.strip(): the text without its leading and trailing whitespace.
RECURSIVE lstrip(_)
lstrip(s) == IF s # <<>> /\ IsSpace(Head(s)) THEN lstrip(Tail(s)) ELSE s
RECURSIVE rstrip(_)
rstrip(s) ==
    IF s # <<>> /\ IsSpace(s[Len(s)]) THEN rstrip(SubSeq(s, 1, Len(s) - 1)) ELSE s
\* strip left out: the text as extracted.
strip_Nothing(s) == s

strip(s) == rstrip(lstrip(s))

\* getattr(obj, name, default) on an object given as a record of the
\* attributes it has.
HasAttr(obj, name) == name \in DOMAIN obj

\* "".join(parts)
RECURSIVE join(_)
join(parts) == IF parts = <<>> THEN <<>> ELSE Head(parts) \o join(Tail(parts))

\* The inner loop of extract_output_text: the texts of the fragments of one
\* item's content that are typed output_text.
RECURSIVE ContentParts(_)
ContentParts(content) ==
    IF content = <<>> THEN <<>>
    ELSE (IF Head(content).type = "output_text" THEN <<Head(content).text>> ELSE <<>>)
         \o ContentParts(Tail(content))

\* OutputParts without the test of the item's type: every item is read.
RECURSIVE OutputParts_AllItems(_)
OutputParts_AllItems(output) ==
    IF output = <<>> THEN <<>>
    ELSE ContentParts(Head(output).content) \o OutputParts_AllItems(Tail(output))

\* The outer loop of extract_output_text: items not typed message are skipped.
RECURSIVE OutputParts(_)
OutputParts(output) ==
    IF output = <<>> THEN <<>>
    ELSE (IF Head(output).type # "message" THEN <<>> ELSE ContentParts(Head(output).content))
         \o OutputParts(Tail(output))

extract_output_text(response) ==
    IF HasAttr(response, "output_text") /\ response.output_text # <<>>
    THEN response.output_text
    ELSE join(OutputParts(IF HasAttr(response, "output") THEN response.output ELSE <<>>))

\* UsageField without the fallback: only the first name is read.
UsageField_NoFallback(response, first, second) ==
    IF ~HasAttr(response, "usage") THEN 0
    ELSE IF HasAttr(response.usage, first) THEN response.usage[first]
    ELSE 0

\* Lines 347-355: the token counts, from input_tokens/output_tokens or else
\* from prompt_tokens/completion_tokens, 0 when neither is there.
UsageField(response, first, second) ==
    IF ~HasAttr(response, "usage") THEN 0
    ELSE IF HasAttr(response.usage, first) THEN response.usage[first]
    ELSE IF HasAttr(response.usage, second) THEN response.usage[second]
    ELSE 0
PromptTokens(response) == UsageField(response, "input_tokens", "prompt_tokens")
ResponseTokens(response) == UsageField(response, "output_tokens", "completion_tokens")

(***************************************************************************)
(* decimal.Decimal, for the values that are not negative: a coefficient    *)
(* (its digits, the most significant first, without leading zeros) and an  *)
(* exponent.  Decimal(str) and Decimal(int) are exact; every arithmetic    *)
(* operation rounds its exact result to the precision of the context, half *)
(* to even.                                                                *)
(***************************************************************************)
\* decimal.getcontext().prec, as the module leaves it.
DecimalPrecision == 28

Dec(digits, exp) == [digits |-> digits, exp |-> exp]

\* The digits of a natural number.
RECURSIVE DigitsOf(_)
DigitsOf(n) == IF n < 10 THEN <<n>> ELSE Append(DigitsOf(n \div 10), n % 10)

\* A coefficient without its leading zeros (0 keeps one digit).
Unpadded(d) ==
    LET nonzero == {i \in DOMAIN d : d[i] # 0} IN
    IF nonzero = {} THEN <<0>>
    ELSE SubSeq(d, CHOOSE i \in nonzero : \A j \in nonzero : i <= j, Len(d))

Zeros(k) == [i \in 1..k |-> 0]
Front(d) == SubSeq(d, 1, Len(d) - 1)
PadLeft(d, n) == Zeros(n - Len(d)) \o d

\* The digits of d * n, for a natural number n: TimesCarry is the carry
\* out of position i.
RECURSIVE TimesCarry(_, _, _)
TimesCarry(d, n, i) ==
    IF i > Len(d) THEN 0 ELSE (d[i] * n + TimesCarry(d, n, i + 1)) \div 10
TimesInt(d, n) ==
    DigitsOf(TimesCarry(d, n, 1))
    \o [i \in DOMAIN d |-> (d[i] * n + TimesCarry(d, n, i + 1)) % 10]

\* The digits of a + b, for coefficients of one length: PlusCarry is the
\* carry out of position i.
RECURSIVE PlusCarry(_, _, _)
PlusCarry(a, b, i) ==
    IF i > Len(a) THEN 0 ELSE (a[i] + b[i] + PlusCarry(a, b, i + 1)) \div 10
PlusDigits(a, b) ==
    DigitsOf(PlusCarry(a, b, 1))
    \o [i \in DOMAIN a |-> (a[i] + b[i] + PlusCarry(a, b, i + 1)) % 10]

\* The exact product of Decimal(n) and x, and the exact sum of x and y.
ExactTimes(n, x) == Dec(Unpadded(TimesInt(x.digits, n)), x.exp)
ExactPlus(x, y) ==
    LET exp == IF x.exp < y.exp THEN x.exp ELSE y.exp
        a == x.digits \o Zeros(x.exp - exp)
        b == y.digits \o Zeros(y.exp - exp)
        len == IF Len(a) > Len(b) THEN Len(a) ELSE Len(b)
    IN Dec(Unpadded(PlusDigits(PadLeft(a, len), PadLeft(b, len))), exp)

\* The context's rounding of an exact result: a coefficient longer than the
\* precision loses its last digits, rounded half to even.
Rounded(x) ==
    IF Len(x.digits) <= DecimalPrecision THEN x
    ELSE LET k == Len(x.digits) - DecimalPrecision
             kept == SubSeq(x.digits, 1, DecimalPrecision)
             dropped == SubSeq(x.digits, DecimalPrecision + 1, Len(x.digits))
             up == \/ dropped[1] > 5
                   \/ /\ dropped[1] = 5
                      /\ \/ \E i \in 2..k : dropped[i] # 0
                         \/ kept[DecimalPrecision] % 2 = 1
             coef == IF up
                     THEN Unpadded(PlusDigits(kept, PadLeft(<<1>>, DecimalPrecision)))
                     ELSE kept
         IN IF Len(coef) > DecimalPrecision
            THEN Dec(Front(coef), x.exp + k + 1)
            ELSE Dec(coef, x.exp + k)

\* Decimal(n) * x, x + y and x / Decimal("1000") (the quotient by 1000 of a
\* coefficient within the precision is the coefficient three places down).
Times(n, x) == Rounded(ExactTimes(n, x))
Plus(x, y) == Rounded(ExactPlus(x, y))
Per1000(x) == Rounded(Dec(x.digits, x.exp - 3))

\* Cost with the sum kept per 1000 tokens: the
\* division is left out.
Cost_Per1000Tokens(ptok, rtok, inprice, outprice) ==
    Plus(Times(ptok, inprice), Times(rtok, outprice))

\* Lines 356-359.
Cost(ptok, rtok, inprice, outprice) ==
    Per1000(Plus(Times(ptok, inprice), Times(rtok, outprice)))

\* Decimal("0"), the default of both prices (lines 26-27).
DefaultPrice == Dec(<<0>>, 0)

\* Responses the provider returns in the model: a flat text, a blank flat
\* text, a structured output with a non-message item, no text at all.
MessageItem(txt) ==
    [type |-> "message", content |-> <<[type |-> "output_text", text |-> txt]>>]
ProviderResponses ==
    { [output_text |-> <<"x">>, usage |-> [input_tokens |-> 2, output_tokens |-> 1]],
      [output_text |-> <<Blank>>, usage |-> [input_tokens |-> 2, output_tokens |-> 1]],
      [output |-> <<[type |-> "reasoning", content |-> <<>>], MessageItem(<<Blank, "y">>)>>,
       usage |-> [prompt_tokens |-> 1, completion_tokens |-> 1]],
      [output |-> <<>>] }

(***************************************************************************)
(* State.                                                                  *)
(***************************************************************************)
VARIABLES
    ATFOOD_API_TOKEN,   \* the configured shared secret, None when unset
    OPEN_INPUT_PRICE_PER_1K,    \* the configured price of 1000 prompt tokens
    OPEN_OUTPUT_PRICE_PER_1K,   \* the configured price of 1000 response tokens
    clock,              \* the last value time.monotonic() returned
    _rate_buckets,      \* client key -> deque of timestamps
    conversations,      \* rows of atfood_conversations, in insertion order
    pc,                 \* thread -> where it is in atfood_endpoint
    payload,            \* thread -> the request body (its action)
    x_atfood_token,     \* thread -> X-ATFOOD-TOKEN
    x_atfood_user,      \* thread -> X-ATFOOD-USER
    client_ip,          \* thread -> the rate-limit key of the request
    now,                \* thread -> enforce_rate_limit's reading of the clock
    response,           \* thread -> what CLIENT.responses.create returned
    reply,              \* thread -> prompt, text, prompt_tokens, response_tokens, total_cost
    status,             \* thread -> how the request ended
    reqId,              \* thread -> number of the request it serves
    nextId,             \* number of the next request received
    modelCalls,         \* thread -> calls of CLIENT.responses.create for its request
    storeCalls,         \* thread -> calls of _store_conversation for its request
    limited,            \* client keys a call of which was rejected with 429
    admitted,           \* client key -> timestamps of the calls admitted in the
                        \* window ending at clock
    table,              \* atfood_conversations: whether it exists, its columns
    startup,            \* where the process is in lifespan
    existing,           \* _ensure_conversation_columns: the columns it selected
    column,             \* _ensure_conversation_columns: position of its loop
    starts,             \* times the process was started
    found,              \* the table and rows the first start found
    alters,             \* the ALTER TABLE statements executed, in order
    replay              \* TwinSpec: which of the two runs this is, and what the
                        \* first run's requests were and how they ended

schemaVars == <<table, startup, existing, column, starts, found, alters>>

\* The settings the module reads from the environment when it is loaded.
configVars == <<ATFOOD_API_TOKEN, OPEN_INPUT_PRICE_PER_1K, OPEN_OUTPUT_PRICE_PER_1K>>

vars == <<configVars, replay, clock, _rate_buckets, conversations, pc, payload,
          x_atfood_token, x_atfood_user, client_ip, now, reply, status, reqId,
          nextId, modelCalls, storeCalls, admitted, response, limited, schemaVars>>

\* The local response before the call of the provider, and when the call
\* raised instead of returning.
\* The only run of a server that is not run twice.
NoReplay == [run |-> 1, seen |-> <<>>]

NoResponse == [none |-> TRUE]
Raised == [raised |-> TRUE]

\* A thread's locals before it has computed them.
NoReply ==
    [prompt |-> <<>>, text |-> <<>>, prompt_tokens |-> 0, response_tokens |-> 0,
     total_cost |-> DefaultPrice]

\* A request body before one is received.
NoPayload ==
    [action |-> None, user_text |-> None, recipe_id |-> None, critic_topic |-> None,
     session_id |-> None, prefs |-> None]

\* Request bodies that name an action and leave every optional field out.
ActionBodies == {[NoPayload EXCEPT !.action = a] : a \in RequestActions}

\* Columns of the CREATE TABLE statement, lines 215-226, in its order.
TableColumns ==
    <<"id", "user_id", "action", "prompt", "response_text", "prompt_tokens",
      "response_tokens", "total_cost", "created_at">>

\* required_columns, lines 232-236, in the order the loop visits them.
required_columns == <<"prompt_tokens", "response_tokens", "total_cost">>

\* The elements of a sequence.
Range(seq) == {seq[i] : i \in DOMAIN seq}

\* No process is handling a request: the state of the module's globals once
\* it is loaded, with ATFOOD_API_TOKEN one of settings.
Loaded(settings) ==
    /\ ATFOOD_API_TOKEN \in settings
    /\ OPEN_INPUT_PRICE_PER_1K = DefaultPrice
    /\ OPEN_OUTPUT_PRICE_PER_1K = DefaultPrice
    /\ clock = 0
    /\ _rate_buckets = [k \in ClientKeys |-> <<>>]
    /\ pc = [t \in Threads |-> "idle"]
    /\ payload = [t \in Threads |-> NoPayload]
    /\ x_atfood_token = [t \in Threads |-> None]
    /\ x_atfood_user = [t \in Threads |-> None]
    /\ client_ip = [t \in Threads |-> "unknown"]
    /\ now = [t \in Threads |-> 0]
    /\ reply = [t \in Threads |-> NoReply]
    /\ status = [t \in Threads |-> "none"]
    /\ reqId = [t \in Threads |-> 0]
    /\ nextId = 1
    /\ modelCalls = [t \in Threads |-> 0]
    /\ storeCalls = [t \in Threads |-> 0]
    /\ admitted = [k \in ClientKeys |-> <<>>]
    /\ response = [t \in Threads |-> NoResponse]
    /\ limited = {}
    /\ replay = NoReplay

\* The process after a startup that created the table in an empty database.
Started(settings) ==
    /\ Loaded(settings)
    /\ conversations = <<>>
    /\ table = [exists |-> TRUE, columns |-> TableColumns]
    /\ startup = "serving"
    /\ existing = {}
    /\ column = 1
    /\ starts = 1
    /\ found = [exists |-> FALSE, columns |-> <<>>, rows |-> <<>>]
    /\ alters = <<>>

(***************************************************************************)
(* Decisions of the handler.                                               *)
(***************************************************************************)
\* TokenRejected with the check made also when no header came.
TokenRejected_WhenMissing(secret, header) == Truthy(secret) /\ header # secret

\* Lines 325-327: the condition under which the handler raises 401.
TokenRejected(secret, header) == Truthy(secret) /\ Truthy(header) /\ header # secret

\* Expired with the comparison lost: nothing is ever trimmed.
Expired_Never(ts, cutoff) == FALSE

\* Expired with <= for <: a timestamp exactly the window old is dropped too.
Expired_AtCutoff(ts, cutoff) == ts <= cutoff

\* Line 296: a timestamp the trimming loop drops.
Expired(ts, cutoff) == ts < cutoff

\* LimitReached off by one: > for >=.
LimitReached_OffByOne(window) == Len(window) > RATE_LIMIT_REQUESTS

\* Line 298: the count check.
LimitReached(window) == Len(window) >= RATE_LIMIT_REQUESTS

\* The timestamps of a sequence that lie in the window of length
\* RATE_LIMIT_WINDOW_SECONDS ending at time.
InWindow(stamps, time) ==
    SelectSeq(stamps, LAMBDA ts : time - RATE_LIMIT_WINDOW_SECONDS <= ts /\ ts <= time)

\* Line 329.
ClientIp(client) == IF client = NoClient THEN "unknown" ELSE client

\* str.strip() on the values of UserHeaders: the blank header is the only
\* one with surrounding whitespace.
StripHeader(s) == IF s = " " THEN "" ELSE s

\* Line 363.
UserId(user_header, ip) ==
    IF Truthy(StripHeader(OrEmpty(user_header))) THEN StripHeader(OrEmpty(user_header))
    ELSE IF Truthy(ip) THEN ip
    ELSE "demo-user"

\* How a request ends: the handler returns the response ("200"), raises
\* HTTPException with a status code and a detail, or lets another exception
\* escape, which the handler maps to nothing.
HttpErrors == {"401", "429", "400", "502", "500"}
Escaped == {"IndexError", "APIError"}


Finish(t, code) ==
    /\ pc' = [pc EXCEPT ![t] = "done"]
    /\ status' = [status EXCEPT ![t] = code]

(***************************************************************************)
(* atfood_endpoint, one step at a time.                                    *)
(***************************************************************************)
\* A request arrives and a free worker thread takes it; its body is drawn
\* from bodies, its headers from tokens and users, its peer from clients.
Receive(t, calls, bodies, tokens, users, clients) ==
    /\ pc[t] \in {"idle", "done"}
    /\ nextId <= calls
    /\ \E body \in bodies, tok \in tokens, usr \in users, c \in clients :
          /\ payload' = [payload EXCEPT ![t] = body]
          /\ x_atfood_token' = [x_atfood_token EXCEPT ![t] = tok]
          /\ x_atfood_user' = [x_atfood_user EXCEPT ![t] = usr]
          /\ client_ip' = [client_ip EXCEPT ![t] = ClientIp(c)]
    /\ pc' = [pc EXCEPT ![t] = "auth"]
    /\ status' = [status EXCEPT ![t] = "none"]
    /\ reqId' = [reqId EXCEPT ![t] = nextId]
    /\ nextId' = nextId + 1
    /\ now' = [now EXCEPT ![t] = 0]
    /\ reply' = [reply EXCEPT ![t] = NoReply]
    /\ modelCalls' = [modelCalls EXCEPT ![t] = 0]
    /\ storeCalls' = [storeCalls EXCEPT ![t] = 0]
    /\ response' = [response EXCEPT ![t] = NoResponse]
    /\ UNCHANGED schemaVars
    /\ UNCHANGED <<configVars, replay, clock, _rate_buckets, conversations,
                   admitted, limited>>

\* Authenticate with the action looked up first.
Authenticate_LooksUpFirst(t) ==
    /\ pc[t] = "auth"
    /\ IF payload[t].action \notin PromptActions
       THEN Finish(t, "400")
       ELSE IF TokenRejected(ATFOOD_API_TOKEN, x_atfood_token[t])
       THEN Finish(t, "401")
       ELSE pc' = [pc EXCEPT ![t] = "rl_now"] /\ UNCHANGED status
    /\ UNCHANGED schemaVars
    /\ UNCHANGED <<configVars, replay, clock, _rate_buckets, conversations,
                   payload, x_atfood_token, x_atfood_user, client_ip, now,
                   response, reply, reqId, nextId, modelCalls, storeCalls,
                   admitted, limited>>

\* Authenticate with a named caller let in without the token check.
Authenticate_TrustsUser(t) ==
    /\ pc[t] = "auth"
    /\ IF TokenRejected(ATFOOD_API_TOKEN, x_atfood_token[t]) /\ x_atfood_user[t] = None
       THEN Finish(t, "401")
       ELSE pc' = [pc EXCEPT ![t] = "rl_now"] /\ UNCHANGED status
    /\ UNCHANGED schemaVars
    /\ UNCHANGED <<configVars, replay, clock, _rate_buckets, conversations,
                   payload, x_atfood_token, x_atfood_user, client_ip, now,
                   response, reply, reqId, nextId, modelCalls, storeCalls,
                   admitted, limited>>

\* Lines 325-327.
Authenticate(t) ==
    /\ pc[t] = "auth"
    /\ IF TokenRejected(ATFOOD_API_TOKEN, x_atfood_token[t])
       THEN Finish(t, "401")
       ELSE pc' = [pc EXCEPT ![t] = "rl_now"] /\ UNCHANGED status
    /\ UNCHANGED schemaVars
    /\ UNCHANGED <<configVars, replay, clock, _rate_buckets, conversations,
                   payload, x_atfood_token, x_atfood_user, client_ip, now,
                   response, reply, reqId, nextId, modelCalls, storeCalls,
                   admitted, limited>>

\* enforce_rate_limit, lines 293-295: read the clock, which returns a value
\* not less than any it returned before; window is the deque of the key
\* (created empty on first use) and cutoff is now - window seconds.
RateLimitNow(t) ==
    /\ pc[t] = "rl_now"
    /\ \E reading \in clock..MaxTime :
          /\ clock' = reading
          /\ now' = [now EXCEPT ![t] = reading]
          /\ admitted' = [k \in ClientKeys |-> InWindow(admitted[k], reading)]
    /\ pc' = [pc EXCEPT ![t] = "rl_loop"]
    /\ UNCHANGED schemaVars
    /\ UNCHANGED <<configVars, replay, _rate_buckets, conversations, payload,
                   x_atfood_token, x_atfood_user, client_ip, response, reply,
                   status, reqId, nextId, modelCalls, storeCalls, limited>>

Cutoff(t) == now[t] - RATE_LIMIT_WINDOW_SECONDS

\* Line 296, "while window": the loop ends on an empty deque.
RateLimitLoop(t) ==
    /\ pc[t] = "rl_loop"
    /\ pc' = [pc EXCEPT ![t] =
                 IF _rate_buckets[client_ip[t]] = <<>> THEN "rl_check" ELSE "rl_head"]
    /\ UNCHANGED schemaVars
    /\ UNCHANGED <<configVars, replay, clock, _rate_buckets, conversations,
                   payload, x_atfood_token, x_atfood_user, client_ip, now,
                   response, reply, status, reqId, nextId, modelCalls,
                   storeCalls, admitted, limited>>

\* Line 296, "window[0] < cutoff": IndexError when the deque was emptied
\* since the test before.
RateLimitHead(t) ==
    /\ pc[t] = "rl_head"
    /\ IF _rate_buckets[client_ip[t]] = <<>>
       THEN Finish(t, "IndexError")
       ELSE /\ pc' = [pc EXCEPT ![t] =
                         IF Expired(Head(_rate_buckets[client_ip[t]]), Cutoff(t))
                         THEN "rl_pop" ELSE "rl_check"]
            /\ UNCHANGED status
    /\ UNCHANGED schemaVars
    /\ UNCHANGED <<configVars, replay, clock, _rate_buckets, conversations,
                   payload, x_atfood_token, x_atfood_user, client_ip, now,
                   response, reply, reqId, nextId, modelCalls, storeCalls,
                   admitted, limited>>

\* Line 297, window.popleft(): IndexError on an empty deque.
RateLimitPop(t) ==
    /\ pc[t] = "rl_pop"
    /\ IF _rate_buckets[client_ip[t]] = <<>>
       THEN Finish(t, "IndexError") /\ UNCHANGED _rate_buckets
       ELSE /\ _rate_buckets' = [_rate_buckets EXCEPT ![client_ip[t]] = Tail(@)]
            /\ pc' = [pc EXCEPT ![t] = "rl_loop"]
            /\ UNCHANGED status
    /\ UNCHANGED schemaVars
    /\ UNCHANGED <<configVars, replay, clock, conversations, payload,
                   x_atfood_token, x_atfood_user, client_ip, now, response,
                   reply, reqId, nextId, modelCalls, storeCalls, admitted,
                   limited>>

\* RateLimitCheck with the rejected call recorded like an admitted one.
RateLimitCheck_Records(t) ==
    /\ pc[t] = "rl_check"
    /\ IF LimitReached(_rate_buckets[client_ip[t]])
       THEN /\ Finish(t, "429") /\ limited' = limited \cup {client_ip[t]}
            /\ _rate_buckets' = [_rate_buckets EXCEPT ![client_ip[t]] = Append(@, now[t])]
       ELSE /\ pc' = [pc EXCEPT ![t] = "rl_append"]
            /\ UNCHANGED <<status, limited, _rate_buckets>>
    /\ UNCHANGED schemaVars
    /\ UNCHANGED <<configVars, replay, clock, conversations, payload, x_atfood_token,
                   x_atfood_user, client_ip, now, response, reply, reqId, nextId,
                   modelCalls, storeCalls, admitted>>

\* Lines 298-299.
RateLimitCheck(t) ==
    /\ pc[t] = "rl_check"
    /\ IF LimitReached(_rate_buckets[client_ip[t]])
       THEN Finish(t, "429") /\ limited' = limited \cup {client_ip[t]}
       ELSE pc' = [pc EXCEPT ![t] = "rl_append"] /\ UNCHANGED <<status, limited>>
    /\ UNCHANGED schemaVars
    /\ UNCHANGED <<configVars, replay, clock, _rate_buckets, conversations,
                   payload, x_atfood_token, x_atfood_user, client_ip, now,
                   response, reply, reqId, nextId, modelCalls, storeCalls,
                   admitted>>

\* Line 300.
RateLimitAppend(t) ==
    /\ pc[t] = "rl_append"
    /\ _rate_buckets' = [_rate_buckets EXCEPT ![client_ip[t]] = Append(@, now[t])]
    /\ admitted' = [admitted EXCEPT ![client_ip[t]] = InWindow(Append(@, now[t]), clock)]
    /\ pc' = [pc EXCEPT ![t] = "render"]
    /\ UNCHANGED schemaVars
    /\ UNCHANGED <<configVars, replay, clock, conversations, payload,
                   x_atfood_token, x_atfood_user, client_ip, now, response,
                   reply, status, reqId, nextId, modelCalls, storeCalls,
                   limited>>

\* Lines 336-340: the template's lines, then the Prefs line, then the
\* Session line.
BuildPrompt(req) ==
    ACTION_PROMPTS(req.action, req)
    \o (IF Truthy(req.prefs) THEN <<Line("Prefs", req.prefs)>> ELSE <<>>)
    \o (IF Truthy(req.session_id) THEN <<Line("Session", req.session_id)>> ELSE <<>>)

\* Render without the lookup's test: an unknown action goes on with an empty
\* prompt.
Render_Unchecked(t) ==
    /\ pc[t] = "render"
    /\ reply' = [reply EXCEPT ![t].prompt =
                    IF payload[t].action \in PromptActions THEN BuildPrompt(payload[t])
                    ELSE <<>>]
    /\ pc' = [pc EXCEPT ![t] = "generate"]
    /\ UNCHANGED schemaVars
    /\ UNCHANGED <<configVars, replay, clock, _rate_buckets, conversations, payload,
                   x_atfood_token, x_atfood_user, client_ip, now, response, status,
                   reqId, nextId, modelCalls, storeCalls, admitted, limited>>

\* Render giving the slot back to a request it rejects: the 400 takes the
\* request's timestamp out of the bucket again.
Render_ReleasesSlot(t) ==
    /\ pc[t] = "render"
    /\ IF payload[t].action \notin PromptActions
       THEN /\ Finish(t, "400")
            /\ _rate_buckets' = [_rate_buckets EXCEPT ![client_ip[t]] =
                                    SubSeq(@, 1, Len(@) - 1)]
            /\ UNCHANGED reply
       ELSE /\ reply' = [reply EXCEPT ![t].prompt = BuildPrompt(payload[t])]
            /\ pc' = [pc EXCEPT ![t] = "generate"]
            /\ UNCHANGED <<status, _rate_buckets>>
    /\ UNCHANGED schemaVars
    /\ UNCHANGED <<configVars, replay, clock, conversations,
                   payload, x_atfood_token, x_atfood_user, client_ip, now,
                   response, reqId, nextId, modelCalls, storeCalls, admitted,
                   limited>>

\* Lines 332-340.
Render(t) ==
    /\ pc[t] = "render"
    /\ IF payload[t].action \notin PromptActions
       THEN Finish(t, "400") /\ UNCHANGED reply
       ELSE /\ reply' = [reply EXCEPT ![t].prompt = BuildPrompt(payload[t])]
            /\ pc' = [pc EXCEPT ![t] = "generate"]
            /\ UNCHANGED status
    /\ UNCHANGED schemaVars
    /\ UNCHANGED <<configVars, replay, clock, _rate_buckets, conversations,
                   payload, x_atfood_token, x_atfood_user, client_ip, now,
                   response, reqId, nextId, modelCalls, storeCalls, admitted,
                   limited>>

\* Lines 356-359, at the configured prices.
TotalCost(ptok, rtok) == Cost(ptok, rtok, OPEN_INPUT_PRICE_PER_1K, OPEN_OUTPUT_PRICE_PER_1K)

\* Lines 347-362 on the provider's response: the token counts, the cost and
\* the trimmed text.
Normalize(prompt, returned) ==
    [prompt |-> prompt,
     text |-> strip(extract_output_text(returned)),
     prompt_tokens |-> PromptTokens(returned),
     response_tokens |-> ResponseTokens(returned),
     total_cost |-> TotalCost(PromptTokens(returned), ResponseTokens(returned))]

\* Lines 342-362: the call of the provider, which raises or returns one of
\* responses; the exception is not caught in the handler.  An empty text
\* ends the request with 502.
Create(t, responses) ==
    /\ pc[t] = "generate"
    /\ modelCalls' = [modelCalls EXCEPT ![t] = @ + 1]
    /\ \/ /\ response' = [response EXCEPT ![t] = Raised]
          /\ Finish(t, "APIError")
          /\ UNCHANGED reply
       \/ \E returned \in responses :
             /\ response' = [response EXCEPT ![t] = returned]
             /\ reply' = [reply EXCEPT ![t] = Normalize(reply[t].prompt, returned)]
             /\ IF reply'[t].text = <<>>
                THEN Finish(t, "502")
                ELSE pc' = [pc EXCEPT ![t] = "persist"] /\ UNCHANGED status
    /\ UNCHANGED schemaVars
    /\ UNCHANGED <<configVars, replay, clock, _rate_buckets, conversations,
                   payload, x_atfood_token, x_atfood_user, client_ip, now,
                   reqId, nextId, storeCalls, admitted, limited>>

\* The step with the responses of ProviderResponses.
Generate(t) == Create(t, ProviderResponses)

\* _store_conversation, lines 265-289: the row the INSERT adds (id is the
\* auto-increment key; req names the request, for the properties only).
ConversationRow(t) ==
    [id |-> Len(conversations) + 1,
     req |-> reqId[t],
     user_id |-> UserId(x_atfood_user[t], client_ip[t]),
     action |-> payload[t].action,
     prompt |-> reply[t].prompt,
     response_text |-> reply[t].text,
     prompt_tokens |-> reply[t].prompt_tokens,
     response_tokens |-> reply[t].response_tokens,
     total_cost |-> reply[t].total_cost,
     created_at |-> "CURRENT_TIMESTAMP"]

\* Columns the INSERT statement names.
InsertColumns ==
    {"user_id", "action", "prompt", "response_text", "prompt_tokens", "response_tokens",
     "total_cost"}

\* Persist with the exception swallowed: the handler goes on to respond.
Persist_IgnoresFailure(t) ==
    /\ pc[t] = "persist"
    /\ storeCalls' = [storeCalls EXCEPT ![t] = @ + 1]
    /\ \/ conversations' = Append(conversations, ConversationRow(t))
       \/ UNCHANGED conversations
    /\ pc' = [pc EXCEPT ![t] = "respond"]
    /\ UNCHANGED schemaVars
    /\ UNCHANGED <<configVars, replay, clock, _rate_buckets, payload,
                   x_atfood_token, x_atfood_user, client_ip, now, response,
                   reply, status, reqId, nextId, modelCalls, admitted, limited>>

\* Persist with a retry: a failed INSERT is attempted again.
Persist_Retries(t) ==
    /\ pc[t] = "persist"
    /\ storeCalls' = [storeCalls EXCEPT ![t] = @ + 1]
    /\ \/ /\ conversations' = Append(conversations, ConversationRow(t))
          /\ pc' = [pc EXCEPT ![t] = "respond"]
       \/ UNCHANGED <<conversations, pc>>
    /\ UNCHANGED schemaVars
    /\ UNCHANGED <<configVars, replay, clock, _rate_buckets, payload,
                   x_atfood_token, x_atfood_user, client_ip, now, response,
                   reply, status, reqId, nextId, modelCalls, admitted, limited>>

\* Lines 364-375: the INSERT commits (autocommit) or the call raises (no
\* connection, a statement the server rejects), with no row written, and the
\* handler raises 500.
Persist(t) ==
    /\ pc[t] = "persist"
    /\ storeCalls' = [storeCalls EXCEPT ![t] = @ + 1]
    /\ \/ /\ table.exists /\ InsertColumns \subseteq Range(table.columns)
          /\ conversations' = Append(conversations, ConversationRow(t))
          /\ pc' = [pc EXCEPT ![t] = "respond"]
          /\ UNCHANGED status
       \/ Finish(t, "500") /\ UNCHANGED conversations
    /\ UNCHANGED schemaVars
    /\ UNCHANGED <<configVars, replay, clock, _rate_buckets, payload,
                   x_atfood_token, x_atfood_user, client_ip, now, response,
                   reply, reqId, nextId, modelCalls, admitted, limited>>

\* Lines 376-381.
Respond(t) ==
    /\ pc[t] = "respond"
    /\ Finish(t, "200")
    /\ UNCHANGED schemaVars
    /\ UNCHANGED <<configVars, replay, clock, _rate_buckets, conversations,
                   payload, x_atfood_token, x_atfood_user, client_ip, now,
                   response, reply, reqId, nextId, modelCalls, storeCalls,
                   admitted, limited>>

atfood_endpoint(t) ==
    \/ Authenticate(t)
    \/ RateLimitNow(t)
    \/ RateLimitLoop(t)
    \/ RateLimitHead(t)
    \/ RateLimitPop(t)
    \/ RateLimitCheck(t)
    \/ RateLimitAppend(t)
    \/ Render(t)
    \/ Generate(t)
    \/ Persist(t)
    \/ Respond(t)

\* The handler with the provider returning one of responses.
atfood_endpoint_with(t, responses) ==
    \/ Authenticate(t)
    \/ RateLimitNow(t)
    \/ RateLimitLoop(t)
    \/ RateLimitHead(t)
    \/ RateLimitPop(t)
    \/ RateLimitCheck(t)
    \/ RateLimitAppend(t)
    \/ Render(t)
    \/ Create(t, responses)
    \/ Persist(t)
    \/ Respond(t)

(***************************************************************************)
(* lifespan: the startup schema step, one SQL statement at a time.  Every  *)
(* statement runs on a connection of its own function call and is          *)
(* committed on its own (autocommit); opening the connection or running    *)
(* the statement can fail, and the exception ends the startup.             *)
(***************************************************************************)
requestVars ==
    <<configVars, replay, clock, _rate_buckets, pc, payload, x_atfood_token,
      x_atfood_user, client_ip, now, reply, status, reqId, nextId, modelCalls,
      storeCalls, admitted, response, limited>>

\* An exception escapes lifespan: the process does not come up.
StartupFails ==
    /\ startup \in {"create", "select", "alter"}
    /\ startup' = "failed"
    /\ UNCHANGED <<table, conversations, existing, column, starts, found, alters>>
    /\ UNCHANGED requestVars

\* _ensure_conversation_table, lines 210-228: CREATE TABLE IF NOT EXISTS.
CreateTable(tbl) == IF tbl.exists THEN tbl ELSE [exists |-> TRUE, columns |-> TableColumns]

EnsureConversationTable ==
    /\ startup = "create"
    /\ table' = CreateTable(table)
    /\ startup' = "select"
    /\ UNCHANGED <<conversations, existing, column, starts, found, alters>>
    /\ UNCHANGED requestVars

\* _ensure_conversation_columns, lines 239-247: the column names of the
\* table, from INFORMATION_SCHEMA.
SelectColumns ==
    /\ startup = "select"
    /\ existing' = IF table.exists THEN Range(table.columns) ELSE {}
    /\ column' = 1
    /\ startup' = "alter"
    /\ UNCHANGED <<table, conversations, starts, found, alters>>
    /\ UNCHANGED requestVars

\* SkipColumn without the membership test: every column is added.
SkipColumn_Never(name, selected) == FALSE

\* Line 249: a required column the loop skips.
SkipColumn(name, selected) == name \in selected

\* The row with one more column, at the column's default 0.
WithColumn(row, name) == [c \in DOMAIN row \cup {name} |-> IF c = name THEN 0 ELSE row[c]]

\* Lines 248-253, one round of the loop: ALTER TABLE ADD COLUMN, which the
\* server rejects (duplicate column, no such table) with the table as it
\* was.
EnsureColumn ==
    /\ startup = "alter"
    /\ column <= Len(required_columns)
    /\ LET name == required_columns[column] IN
         IF SkipColumn(name, existing)
         THEN /\ column' = column + 1
              /\ UNCHANGED <<table, conversations, startup, alters>>
         ELSE /\ alters' = Append(alters, [column |-> name, known |-> name \in Range(table.columns)])
              /\ IF table.exists /\ name \notin Range(table.columns)
                 THEN /\ table' = [table EXCEPT !.columns = Append(@, name)]
                      /\ conversations' =
                            [i \in DOMAIN conversations |-> WithColumn(conversations[i], name)]
                      /\ column' = column + 1
                      /\ UNCHANGED startup
                 ELSE /\ startup' = "failed"
                      /\ UNCHANGED <<table, conversations, column>>
    /\ UNCHANGED <<existing, starts, found>>
    /\ UNCHANGED requestVars

\* The loop is over: lifespan yields and the process serves requests.
StartupDone ==
    /\ startup = "alter"
    /\ column > Len(required_columns)
    /\ startup' = "serving"
    /\ UNCHANGED <<table, conversations, existing, column, starts, found, alters>>
    /\ UNCHANGED requestVars

\* The process is started again, after a failed startup or a shutdown.
Restart ==
    /\ startup \in {"failed", "serving"}
    /\ starts < MaxStarts
    /\ starts' = starts + 1
    /\ startup' = "create"
    /\ existing' = {}
    /\ column' = 1
    /\ UNCHANGED <<table, conversations, found, alters>>
    /\ UNCHANGED requestVars

lifespan ==
    \/ EnsureConversationTable
    \/ SelectColumns
    \/ EnsureColumn
    \/ StartupDone
    \/ StartupFails
    \/ Restart

(***************************************************************************)
(* SchemaSpec: the process is started, MaxStarts times, against a database *)
(* that holds no table, or a table of an earlier version: the columns of   *)
(* the current one but any of the three required columns, with no row or   *)
(* one.                                                                    *)
(***************************************************************************)
\* The columns of TableColumns other than those of missing, in order.
ColumnsWithout(missing) == SelectSeq(TableColumns, LAMBDA c : c \notin missing)

\* A row an earlier version stored, over the given columns.
StoredRow(columns) ==
    [c \in Range(columns) |->
        CASE c = "id" -> 1
          [] c = "prompt_tokens" -> 5
          [] c = "response_tokens" -> 7
          [] c = "total_cost" -> 3
          [] OTHER -> 0]

FoundDatabases ==
    {[exists |-> FALSE, columns |-> <<>>, rows |-> <<>>]}
    \cup {[exists |-> TRUE, columns |-> ColumnsWithout(missing), rows |-> <<>>] :
            missing \in SUBSET Range(required_columns)}
    \cup {[exists |-> TRUE, columns |-> ColumnsWithout(missing),
           rows |-> <<StoredRow(ColumnsWithout(missing))>>] :
            missing \in SUBSET Range(required_columns)}

SchemaInit ==
    /\ Loaded({None})
    /\ found \in FoundDatabases
    /\ table = [exists |-> found.exists, columns |-> found.columns]
    /\ conversations = found.rows
    /\ startup = "create"
    /\ existing = {}
    /\ column = 1
    /\ starts = 1
    /\ alters = <<>>

SchemaSpec == SchemaInit /\ [][lifespan]_vars

(***************************************************************************)
(* Spec: the thread pool.  Requests of one client are handled concurrently *)
(* by a server with a configured secret; their token header is absent or   *)
(* wrong.                                                                  *)
(***************************************************************************)
PoolTokens == {None, "wrong"}
PoolUsers == {None}

Init == Started({"s3cret"})

Next ==
    \/ \E t \in Threads : Receive(t, MaxCalls, ActionBodies, PoolTokens, PoolUsers, ClientHosts)
    \/ \E t \in Threads : atfood_endpoint(t)

Spec == Init /\ [][Next]_vars

(***************************************************************************)
(* SeqSpec: one request at a time (a single worker), from two clients.     *)
(***************************************************************************)
Worker == "t1"

SeqNext ==
    \/ Receive(Worker, MaxSeqCalls, ActionBodies, PoolTokens, PoolUsers, ClientHosts \cup {NoClient})
    \/ atfood_endpoint(Worker)

SeqSpec == Init /\ [][SeqNext]_vars

(***************************************************************************)
(* AuthSpec: one request at a time, with every value of the two headers,   *)
(* against a server with and without a configured secret.                  *)
(***************************************************************************)
AuthInit == Started(ApiTokenSettings)

AuthNext ==
    \/ Receive(Worker, MaxAuthCalls, ActionBodies, TokenHeaders, UserHeaders, ClientHosts)
    \/ atfood_endpoint(Worker)

AuthSpec == AuthInit /\ [][AuthNext]_vars

(***************************************************************************)
(* RenderSpec: one request at a time, with every registered action and     *)
(* every combination of the optional fields of the body present or missing.*)
(***************************************************************************)
\* Values of the optional fields of AtfoodRequest: missing (None), and for
\* the strings also empty; a recipe of RECIPE_CONTEXT and one that is not.
UserTexts == {None, "", "less salt"}
RecipeIdFields == {None, "", "chili_crisp_noodles", "my_dish"}
CriticTopics == {None, "ramen"}
PrefsFields == {None, "{'diet': 'vegan'}"}
SessionIds == {None, "s1"}

RenderBodies ==
    {[action |-> a, user_text |-> u, recipe_id |-> r, critic_topic |-> c,
      session_id |-> s, prefs |-> p] :
        a \in PromptActions, u \in UserTexts, r \in RecipeIdFields,
        c \in CriticTopics, s \in SessionIds, p \in PrefsFields}

RenderNext ==
    \/ Receive(Worker, MaxServedCalls, RenderBodies, {None}, PoolUsers, ClientHosts)
    \/ atfood_endpoint(Worker)

\* A value per thread: one for the worker, one for the threads that are idle.
OfWorker(value, rest) == [t \in Threads |-> IF t = Worker THEN value ELSE rest]

\* The buckets and the body of the request of the server of ServedRequest.
ServedBuckets == [k \in ClientKeys |-> IF k \in ClientHosts THEN <<0>> ELSE <<>>]
ServedPayload == [NoPayload EXCEPT !.action = "open_ai_kitchen"]

\* The server has handled one request of the client, admitted at clock 0,
\* for which the call of the provider raised: a timestamp in the bucket and
\* no row.
ServedRequest ==
    /\ clock = 0
    /\ _rate_buckets = ServedBuckets
    /\ admitted = ServedBuckets
    /\ pc = OfWorker("done", "idle")
    /\ status = OfWorker("APIError", "none")
    /\ response = OfWorker(Raised, NoResponse)
    /\ modelCalls = OfWorker(1, 0)
    /\ reqId = OfWorker(1, 0)
    /\ nextId = 2
    /\ payload = OfWorker(ServedPayload, NoPayload)
    /\ reply = OfWorker([NoReply EXCEPT !.prompt = BuildPrompt(ServedPayload)], NoReply)
    /\ x_atfood_token = OfWorker(None, None)
    /\ x_atfood_user = OfWorker(None, None)
    /\ client_ip = OfWorker(CHOOSE h \in ClientHosts : TRUE, "unknown")
    /\ now = OfWorker(0, 0)
    /\ storeCalls = OfWorker(0, 0)
    /\ limited = {}
    /\ conversations = <<>>
    /\ table = [exists |-> TRUE, columns |-> TableColumns]
    /\ startup = "serving"
    /\ existing = {}
    /\ column = 1
    /\ starts = 1
    /\ found = [exists |-> FALSE, columns |-> <<>>, rows |-> <<>>]
    /\ alters = <<>>

\* That server, with no secret configured and its prices among prices.
Served(prices) ==
    /\ ATFOOD_API_TOKEN = None
    /\ OPEN_INPUT_PRICE_PER_1K \in prices
    /\ OPEN_OUTPUT_PRICE_PER_1K \in prices
    /\ ServedRequest
    /\ replay = NoReplay

ServedOne == Served({DefaultPrice})

RenderSpec == ServedOne /\ [][RenderNext]_vars

(***************************************************************************)
(* NormalizeSpec: one request at a time, the provider returning a response *)
(* of any shape: with or without the top-level text, the structured output *)
(* and the usage object, under either naming of its counts.                *)
(***************************************************************************)
\* The names of a usage object's counts, and the count the model reports
\* under each (all different, to tell which one was read).
UsageNames == {"input_tokens", "output_tokens", "prompt_tokens", "completion_tokens"}
UsageCount(name) ==
    CASE name = "input_tokens" -> 3
      [] name = "output_tokens" -> 4
      [] name = "prompt_tokens" -> 5
      [] name = "completion_tokens" -> 6
UsageObjects == {[n \in have |-> UsageCount(n)] : have \in SUBSET UsageNames}

\* Items of response.output: messages with fragments typed output_text and
\* otherwise, a message without content, and an item that is no message.
Fragment(type, txt) == [type |-> type, text |-> txt]
OutputItems ==
    { [type |-> "message", content |-> <<Fragment("output_text", <<"a">>)>>],
      [type |-> "message", content |-> <<Fragment("output_text", <<"d">>)>>],
      [type |-> "message",
       content |-> <<Fragment("output_text", <<"b">>), Fragment("refusal", <<"r">>),
                     Fragment("output_text", <<"c">>)>>],
      [type |-> "message", content |-> <<>>],
      [type |-> "reasoning", content |-> <<Fragment("output_text", <<"z">>)>>] }
OutputLists ==
    {<<>>} \cup {<<i>> : i \in OutputItems} \cup {<<i, j>> : i, j \in OutputItems}

\* An attribute an object may lack: no value, or one.
Optional(values) == {<<>>} \cup {<<v>> : v \in values}

\* The response object with the attributes that are given.
ResponseObject(top, out, usage) ==
    [n \in (IF top = <<>> THEN {} ELSE {"output_text"})
           \cup (IF out = <<>> THEN {} ELSE {"output"})
           \cup (IF usage = <<>> THEN {} ELSE {"usage"}) |->
        CASE n = "output_text" -> top[1]
          [] n = "output" -> out[1]
          [] n = "usage" -> usage[1]]

ShapedResponses ==
    {ResponseObject(top, out, usage) :
        top \in Optional({<<>>, <<"t">>}), out \in Optional(OutputLists),
        usage \in Optional(UsageObjects)}

NormalizeNext ==
    \/ Receive(Worker, MaxServedCalls, ActionBodies, {None}, PoolUsers, ClientHosts)
    \/ atfood_endpoint_with(Worker, ShapedResponses)

NormalizeSpec == ServedOne /\ [][NormalizeNext]_vars

(***************************************************************************)
(* CostSpec: one request at a time, on a server with each of its prices    *)
(* unset, set to a price of two decimals, or set to a price as long as the *)
(* precision of the decimal context; the provider reports token counts     *)
(* from none to a thousand.                                                *)
(***************************************************************************)
\* Values of OPEN_INPUT_PRICE_PER_1K and OPEN_OUTPUT_PRICE_PER_1K: "0" (the
\* default), "2.00", "6.00" and "0.3333333333333333333333333333".
CostPrices ==
    {DefaultPrice, Dec(<<2, 0, 0>>, -2), Dec(<<6, 0, 0>>, -2),
     Dec([i \in 1..DecimalPrecision |-> 3], -DecimalPrecision)}

\* Token counts of a usage object.
TokenCounts == {0, 7, 500, 1000}

CostResponses ==
    {[output_text |-> <<"x">>, usage |-> [input_tokens |-> p, output_tokens |-> r]] :
        p, r \in TokenCounts}

CostInit == Served(CostPrices)

CostNext ==
    \/ Receive(Worker, MaxServedCalls, ActionBodies, {None}, PoolUsers, ClientHosts)
    \/ atfood_endpoint_with(Worker, CostResponses)

CostSpec == CostInit /\ [][CostNext]_vars

(***************************************************************************)
(* TwinSpec: the same sequence of requests served twice.  A server handles *)
(* a sequence of requests, one at a time (the first run); then a server in *)
(* the same initial state handles the same sequence again (the second run):*)
(* the same bodies, tokens and peers, with the same readings of the clock, *)
(* the same answers of the provider and the same outcomes of the INSERT,   *)
(* and any X-ATFOOD-USER header on each request.                           *)
(***************************************************************************)
\* What the first run keeps of a request once it has ended: the request,
\* what the clock, the provider and the store did, and the outcome.
Outcome(t) ==
    [payload |-> payload[t], token |-> x_atfood_token[t], user |-> x_atfood_user[t],
     client_ip |-> client_ip[t], reading |-> now[t], response |-> response[t],
     status |-> status[t], buckets |-> _rate_buckets, limited |-> limited,
     modelCalls |-> modelCalls[t], storeCalls |-> storeCalls[t],
     reply |-> reply[t], rows |-> conversations]

\* The first run's record of the request the worker is serving (requests
\* are numbered from 2: number 1 is the one handled before the sequence).
Seen(t) == replay.seen[reqId[t] - 1]

\* The request the worker serves is one of the sequence.
InSequence(t) == reqId[t] >= 2

\* The second run is given what the first was: the request but for its
\* X-ATFOOD-USER header, the reading of the clock, the provider's answer
\* and whether the INSERT failed.
SameInputs(t) ==
    InSequence(t) =>
      /\ reqId[t] - 1 <= Len(replay.seen)
      /\ payload[t] = Seen(t).payload
      /\ x_atfood_token[t] = Seen(t).token
      /\ client_ip[t] = Seen(t).client_ip
      /\ pc[t] \in {"auth", "rl_now"} \/ status[t] = "401" \/ now[t] = Seen(t).reading
      /\ response[t] # NoResponse => response[t] = Seen(t).response
      /\ storeCalls[t] > 0 => ((status[t] = "500") <=> (Seen(t).status = "500"))

\* In the first run a request is received once the one before is on record.
Aligned(t) ==
    IF replay.run = 1 THEN reqId[t] - 2 <= Len(replay.seen) ELSE SameInputs(t)

\* First run: the request that has ended is put on record.
Record(t) ==
    /\ replay.run = 1
    /\ pc[t] = "done"
    /\ InSequence(t)
    /\ Len(replay.seen) < reqId[t] - 1
    /\ replay' = [replay EXCEPT !.seen = Append(@, Outcome(t))]
    /\ UNCHANGED <<configVars, clock, _rate_buckets, conversations, pc, payload,
                   x_atfood_token, x_atfood_user, client_ip, now, reply, status,
                   reqId, nextId, modelCalls, storeCalls, admitted, response,
                   limited, schemaVars>>

\* The first run is over; the second starts from the state the first
\* started from.
Rerun(t) ==
    /\ replay.run = 1
    /\ pc[t] = "done"
    /\ InSequence(t)
    /\ Len(replay.seen) = reqId[t] - 1
    /\ replay' = [replay EXCEPT !.run = 2]
    /\ clock' = 0
    /\ _rate_buckets' = ServedBuckets
    /\ admitted' = ServedBuckets
    /\ pc' = OfWorker("done", "idle")
    /\ status' = OfWorker("APIError", "none")
    /\ response' = OfWorker(Raised, NoResponse)
    /\ modelCalls' = OfWorker(1, 0)
    /\ reqId' = OfWorker(1, 0)
    /\ nextId' = 2
    /\ payload' = OfWorker(ServedPayload, NoPayload)
    /\ reply' = OfWorker([NoReply EXCEPT !.prompt = BuildPrompt(ServedPayload)], NoReply)
    /\ x_atfood_token' = OfWorker(None, None)
    /\ x_atfood_user' = OfWorker(None, None)
    /\ client_ip' = OfWorker(CHOOSE h \in ClientHosts : TRUE, "unknown")
    /\ now' = OfWorker(0, 0)
    /\ storeCalls' = OfWorker(0, 0)
    /\ limited' = {}
    /\ conversations' = <<>>
    /\ UNCHANGED <<configVars, schemaVars>>

TwinUsers == UserHeaders
TwinTokens == {None, "wrong"}

TwinInit ==
    /\ ATFOOD_API_TOKEN = "s3cret"
    /\ OPEN_INPUT_PRICE_PER_1K = DefaultPrice
    /\ OPEN_OUTPUT_PRICE_PER_1K = DefaultPrice
    /\ ServedRequest
    /\ replay = NoReplay

TwinNext ==
    \/ Receive(Worker, MaxTwinCalls, ActionBodies, TwinTokens, TwinUsers, ClientHosts)
         /\ Aligned(Worker)'
    \/ atfood_endpoint(Worker) /\ Aligned(Worker)'
    \/ Record(Worker)
    \/ Rerun(Worker)

TwinSpec == TwinInit /\ [][TwinNext]_vars

(***************************************************************************)
(* Properties.                                                             *)
(***************************************************************************)
\* The rows of the table that the request numbered r stored.
RowsOf(r) == {i \in DOMAIN conversations : conversations[i].req = r}

\* The bucket of the request a thread serves.
BucketOf(t) == _rate_buckets[client_ip[t]]

\* C1 (SeqSpec): calls at non-decreasing times, one at a time.  For every
\* key, the calls admitted in the window of RATE_LIMIT_WINDOW_SECONDS ending
\* at the latest clock reading number at most RATE_LIMIT_REQUESTS (any
\* interval of that length is such a window at the reading that ends it); a
\* call is about to be recorded only while fewer than RATE_LIMIT_REQUESTS are
\* admitted in its window, and a call that finds RATE_LIMIT_REQUESTS of them
\* ends in 429.
C1_WindowLimit ==
    /\ \A k \in ClientKeys : Len(admitted[k]) <= RATE_LIMIT_REQUESTS
    /\ \A t \in Threads :
          /\ pc[t] = "rl_append" => Len(admitted[client_ip[t]]) < RATE_LIMIT_REQUESTS
          /\ (pc[t] = "rl_check" /\ Len(admitted[client_ip[t]]) = RATE_LIMIT_REQUESTS)
                => Len(BucketOf(t)) >= RATE_LIMIT_REQUESTS
          /\ (pc[t] = "done" /\ status[t] = "429")
                => Len(admitted[client_ip[t]]) = RATE_LIMIT_REQUESTS

\* A call rejected with 429 while RATE_LIMIT_REQUESTS calls of its key are
\* admitted in its window.
C1_Witness ==
    \E t \in Threads :
        /\ pc[t] = "done" /\ status[t] = "429"
        /\ Len(admitted[client_ip[t]]) = RATE_LIMIT_REQUESTS
        /\ \A i \in DOMAIN admitted[client_ip[t]] :
              now[t] - admitted[client_ip[t]][i] <= RATE_LIMIT_WINDOW_SECONDS

\* C2 (Spec), the claim as stated: under any interleaving of concurrent
\* calls for one key, the bucket never holds more than RATE_LIMIT_REQUESTS
\* timestamps of the trailing window and never more than RATE_LIMIT_REQUESTS
\* calls of the window are admitted.
C2_AtomicCheckAndAppend ==
    \A k \in ClientKeys :
        /\ Len(InWindow(_rate_buckets[k], clock)) <= RATE_LIMIT_REQUESTS
        /\ Len(admitted[k]) <= RATE_LIMIT_REQUESTS

\* C3 (Spec): no request has more than one row; a request about to return
\* its response, and one that returned 200, has exactly one row, written by
\* its single call of _store_conversation.
C3_OneRecordPerSuccess ==
    /\ \A r \in 1..MaxCalls : Cardinality(RowsOf(r)) <= 1
    /\ \A t \in Threads :
          (pc[t] = "respond" \/ status[t] = "200")
             => Cardinality(RowsOf(reqId[t])) = 1 /\ storeCalls[t] = 1

\* Two requests answered with 200, each with its row.
C3_Witness ==
    \E t, u \in Threads :
        /\ t # u
        /\ status[t] = "200" /\ status[u] = "200"
        /\ Cardinality(RowsOf(reqId[t])) = 1
        /\ Cardinality(RowsOf(reqId[u])) = 1

\* A finished request with an action that is not registered.
UnknownActionDone(t) == pc[t] = "done" /\ payload[t].action \notin PromptActions

\* C4 (AuthSpec), the claim as stated: a request with an unknown action ends
\* in 400 for every bucket content and every token header.
C4_Original == \A t \in Threads : UnknownActionDone(t) => status[t] = "400"

\* C4 (AuthSpec), amended: a request with an unknown action ends in 401 when
\* its token is rejected, else in 429 when the limit of its key is reached,
\* and in 400 in every other case, recorded in the bucket.
C4_UnknownAction ==
    \A t \in Threads :
        UnknownActionDone(t) =>
            /\ status[t] \in {"401", "429", "400"}
            /\ status[t] = "401" <=>
                  (/\ Truthy(ATFOOD_API_TOKEN)
                   /\ Truthy(x_atfood_token[t])
                   /\ x_atfood_token[t] # ATFOOD_API_TOKEN)
            /\ status[t] = "429" => Len(BucketOf(t)) >= RATE_LIMIT_REQUESTS
            /\ status[t] = "400" =>
                  /\ BucketOf(t) # <<>>
                  /\ BucketOf(t)[Len(BucketOf(t))] = now[t]
                  /\ modelCalls[t] = 0

\* An unknown action answered with 400 for a request that showed the secret
\* and took the last free slot of its key.
C4_Witness ==
    \E t \in Threads :
        /\ UnknownActionDone(t) /\ status[t] = "400"
        /\ x_atfood_token[t] = ATFOOD_API_TOKEN
        /\ Len(BucketOf(t)) = RATE_LIMIT_REQUESTS

\* C5 (Spec): _store_conversation is called at most once for a request; when
\* it was called and the request has no row, the request has ended in 500
\* with its one model call made, and with the text the model gave.
C5_StorageError ==
    \A t \in Threads :
        /\ storeCalls[t] <= 1
        /\ (storeCalls[t] = 1 /\ RowsOf(reqId[t]) = {})
              => /\ pc[t] = "done" /\ status[t] = "500"
                 /\ modelCalls[t] = 1
                 /\ response[t] \in ProviderResponses

\* A request ended in 500 after its model call, with no row.
C5_Witness ==
    \E t \in Threads :
        /\ status[t] = "500" /\ storeCalls[t] = 1 /\ modelCalls[t] = 1
        /\ RowsOf(reqId[t]) = {}
        /\ reply[t].text # <<>>

\* C6 (Spec), the claim as stated: a request whose provider call raised ends
\* with an HTTPException of the handler (a status and a message), after one
\* call and with no row.
C6_UpstreamErrorMapped ==
    \A t \in Threads :
        response[t] = Raised =>
            /\ status[t] \in HttpErrors
            /\ modelCalls[t] = 1
            /\ RowsOf(reqId[t]) = {}

\* A text that is empty or holds only whitespace.
IsBlankText(txt) == \A i \in DOMAIN txt : IsSpace(txt[i])

\* C7 (Spec): a request whose provider returned a response with an empty or
\* whitespace-only text ends in 502, with no call of _store_conversation and
\* no row, whatever usage the response reports.
C7_EmptyResponse ==
    \A t \in Threads :
        (response[t] \in ProviderResponses /\ IsBlankText(extract_output_text(response[t])))
           => /\ pc[t] = "done" /\ status[t] = "502"
              /\ storeCalls[t] = 0
              /\ RowsOf(reqId[t]) = {}

\* A 502 for a whitespace-only text of a response that reports tokens.
C7_Witness ==
    \E t \in Threads :
        /\ status[t] = "502"
        /\ response[t] \in ProviderResponses
        /\ extract_output_text(response[t]) # <<>>
        /\ PromptTokens(response[t]) > 0

\* A request past the authentication step.
PastAuth(t) == pc[t] \notin {"idle", "auth"}

\* C8 (AuthSpec), the claim as stated: with a secret configured and a token
\* header supplied, the request passes authentication exactly when the header
\* equals the secret, else it ends in 401; with no header or no secret it
\* passes.
C8_Original ==
    \A t \in Threads :
        PastAuth(t) =>
            IF Truthy(ATFOOD_API_TOKEN) /\ x_atfood_token[t] # None
            THEN status[t] # "401" <=> x_atfood_token[t] = ATFOOD_API_TOKEN
            ELSE status[t] # "401"

\* C8 (AuthSpec), amended: with a secret configured and a non-empty token
\* header, the request passes authentication exactly when the header equals
\* the secret, else it ends in 401; with no header, an empty header or no
\* secret it passes.
C8_Authentication ==
    \A t \in Threads :
        PastAuth(t) =>
            IF Truthy(ATFOOD_API_TOKEN) /\ x_atfood_token[t] \notin {None, ""}
            THEN status[t] # "401" <=> x_atfood_token[t] = ATFOOD_API_TOKEN
            ELSE status[t] # "401"

\* A request with the secret in its header is past authentication and
\* admitted, on a server with the secret configured.
C8_Witness ==
    \E t \in Threads :
        /\ Truthy(ATFOOD_API_TOKEN)
        /\ x_atfood_token[t] = ATFOOD_API_TOKEN
        /\ pc[t] = "render"

\* C9 (SeqSpec), the claim as stated, by its contrapositive: a call is
\* rejected with 429 only when a recorded admission of its key is less than
\* RATE_LIMIT_WINDOW_SECONDS old (so a call made once that time has passed
\* since every recorded admission is admitted).
C9_Original ==
    \A t \in Threads :
        (pc[t] = "done" /\ status[t] = "429")
           => \E i \in DOMAIN BucketOf(t) :
                 now[t] - BucketOf(t)[i] < RATE_LIMIT_WINDOW_SECONDS

\* C9 (SeqSpec), amended, by its contrapositive: a call is rejected with 429
\* only when a recorded admission of its key is at most
\* RATE_LIMIT_WINDOW_SECONDS old (so a call made when more than that time has
\* passed since every recorded admission is admitted).
C9_AdmittedAfterWindow ==
    \A t \in Threads :
        (pc[t] = "done" /\ status[t] = "429")
           => \E i \in DOMAIN BucketOf(t) :
                 now[t] - BucketOf(t)[i] <= RATE_LIMIT_WINDOW_SECONDS

\* A call of a key that was rate-limited before is admitted, every earlier
\* admission of the key having left the window.
C9_Witness ==
    \E t \in Threads :
        /\ pc[t] = "render"
        /\ client_ip[t] \in limited
        /\ BucketOf(t) = <<now[t]>>
        /\ now[t] > RATE_LIMIT_WINDOW_SECONDS

\* A sequence without repeated elements.
NoRepeats(seq) == \A i, j \in DOMAIN seq : seq[i] = seq[j] => i = j

\* C10 (SchemaSpec): started any number of times against an absent table or
\* one lacking any of the required columns, the schema step never issues an
\* ALTER for a column the table has, never repeats a column, keeps the rows
\* it found (with their values), and ends with the table holding exactly the
\* columns of TableColumns.
C10_SchemaIdempotent ==
    /\ \A i \in DOMAIN alters : ~alters[i].known
    /\ NoRepeats(table.columns)
    /\ Len(conversations) = Len(found.rows)
    /\ \A i \in DOMAIN found.rows :
          \A c \in DOMAIN found.rows[i] :
             c \in DOMAIN conversations[i] /\ conversations[i][c] = found.rows[i][c]
    /\ startup = "serving" =>
          /\ table.exists
          /\ Range(table.columns) = Range(TableColumns)
          /\ Len(table.columns) = Len(TableColumns)
          /\ \A i \in DOMAIN conversations :
                DOMAIN conversations[i] = Range(TableColumns)

\* The second start has come up against a table that the first start found
\* without two of the columns and with a row; both columns were added once.
C10_Witness ==
    /\ startup = "serving" /\ starts = 2
    /\ found.exists /\ Len(found.columns) = Len(TableColumns) - 2
    /\ found.rows # <<>>
    /\ Len(alters) = 2

\* The "Field: value" lines of the template of an action, each with the
\* optional field of the body it is drawn from.
TemplateFields(action) ==
    CASE action \in {"open_ai_kitchen", "world_picks", "food_era"} ->
           {[field |-> "User text", from |-> "user_text"]}
      [] action = "adjust_recipe" ->
           {[field |-> "Recipe", from |-> "recipe_id"],
            [field |-> "Recipe blurb", from |-> "recipe_id"],
            [field |-> "User constraints/request", from |-> "user_text"]}
      [] action = "critic_notes" ->
           {[field |-> "Topic", from |-> "critic_topic"],
            [field |-> "User text", from |-> "user_text"]}

\* A thread that has rendered the prompt of its request.
Rendered(t) == reply[t].prompt # <<>>

\* C11 (RenderSpec), the claim as stated: in the rendered prompt of every
\* registered template, every "Field: value" line of the template is there,
\* and a line drawn from a missing optional field (user_text, recipe_id,
\* critic_topic) shows the empty string, never the null marker.
C11_MissingFieldsEmpty ==
    \A t \in Threads :
        Rendered(t) =>
            \A f \in TemplateFields(payload[t].action) :
                \E i \in DOMAIN reply[t].prompt :
                    /\ reply[t].prompt[i].field = f.field
                    /\ reply[t].prompt[i].value # None
                    /\ payload[t][f.from] = None => reply[t].prompt[i].value = ""

\* A thread whose call of the provider returned a response.
Returned(t) == response[t] \notin {NoResponse, Raised}

\* The usage object of a response, with no count when the response has none.
UsageOf(r) == IF "usage" \in DOMAIN r THEN r.usage ELSE <<>>

\* The count a usage object gives under a name, 0 when it has none.
CountOr0(usage, name) == IF name \in DOMAIN usage THEN usage[name] ELSE 0

\* C12 (NormalizeSpec), the claim as stated: the two counts are taken from
\* input_tokens/output_tokens when the response has that pair, and from
\* prompt_tokens/completion_tokens in every other case; a response without
\* a usage object gives 0 and 0.
C12_Original ==
    \A t \in Threads :
        Returned(t) =>
            LET usage == UsageOf(response[t]) IN
            IF {"input_tokens", "output_tokens"} \subseteq DOMAIN usage
            THEN /\ reply[t].prompt_tokens = usage.input_tokens
                 /\ reply[t].response_tokens = usage.output_tokens
            ELSE /\ reply[t].prompt_tokens = CountOr0(usage, "prompt_tokens")
                 /\ reply[t].response_tokens = CountOr0(usage, "completion_tokens")

\* C12 (NormalizeSpec), amended: each count is taken on its own, the prompt
\* count from input_tokens when the usage object has it and else from
\* prompt_tokens, the response count from output_tokens when the usage
\* object has it and else from completion_tokens, 0 when it has neither; so
\* a response with only prompt_tokens/completion_tokens has both read from
\* that pair, and a response without a usage object gives 0 and 0, the
\* request going on without an error.
C12_UsageExtraction ==
    \A t \in Threads :
        Returned(t) =>
            LET usage == UsageOf(response[t]) IN
            /\ "input_tokens" \in DOMAIN usage
                  => reply[t].prompt_tokens = usage.input_tokens
            /\ "input_tokens" \notin DOMAIN usage
                  => reply[t].prompt_tokens = CountOr0(usage, "prompt_tokens")
            /\ "output_tokens" \in DOMAIN usage
                  => reply[t].response_tokens = usage.output_tokens
            /\ "output_tokens" \notin DOMAIN usage
                  => reply[t].response_tokens = CountOr0(usage, "completion_tokens")
            /\ DOMAIN usage = {"prompt_tokens", "completion_tokens"}
                  => /\ reply[t].prompt_tokens = usage.prompt_tokens
                     /\ reply[t].response_tokens = usage.completion_tokens
            /\ "usage" \notin DOMAIN response[t]
                  => /\ reply[t].prompt_tokens = 0 /\ reply[t].response_tokens = 0
            /\ status[t] \notin Escaped

\* A response with only prompt_tokens/completion_tokens, both read, on its
\* way to the store.
C12_Witness ==
    \E t \in Threads :
        /\ pc[t] = "persist" /\ Returned(t)
        /\ DOMAIN UsageOf(response[t]) = {"prompt_tokens", "completion_tokens"}
        /\ reply[t].prompt_tokens = UsageCount("prompt_tokens")
        /\ reply[t].response_tokens = UsageCount("completion_tokens")

\* The text of the fragments typed output_text of the items typed message,
\* read in list order up to fragment j of item i of an output list.
RECURSIVE TextUpTo(_, _, _)
TextUpTo(output, i, j) ==
    IF i = 0 THEN <<>>
    ELSE IF j = 0
         THEN TextUpTo(output, i - 1, IF i = 1 THEN 0 ELSE Len(output[i - 1].content))
         ELSE TextUpTo(output, i, j - 1)
              \o (IF output[i].type = "message" /\ output[i].content[j].type = "output_text"
                  THEN output[i].content[j].text ELSE <<>>)

\* The text the claim gives for a response.
ExpectedText(r) ==
    IF "output_text" \in DOMAIN r /\ Len(r.output_text) > 0
    THEN r.output_text
    ELSE IF "output" \notin DOMAIN r \/ Len(r.output) = 0
         THEN <<>>
         ELSE TextUpTo(r.output, Len(r.output), Len(r.output[Len(r.output)].content))

\* C13 (NormalizeSpec): the text extracted from a returned response is its
\* top-level text when it has one that is not empty, and otherwise the texts
\* of the fragments typed output_text of the items typed message, joined in
\* list order across the items, every other item and fragment skipped (the
\* empty text when there is none); the handler keeps that text, trimmed.
C13_OutputExtraction ==
    \A t \in Threads :
        Returned(t) =>
            /\ extract_output_text(response[t]) = ExpectedText(response[t])
            /\ reply[t].text = strip(ExpectedText(response[t]))

\* A response without top-level text whose output holds two messages, the
\* first with two output_text fragments around another fragment, the second
\* with one: the text is the three fragments in list order.
C13_Witness ==
    \E t \in Threads :
        /\ Returned(t)
        /\ "output_text" \notin DOMAIN response[t]
        /\ "output" \in DOMAIN response[t]
        /\ Len(response[t].output) = 2
        /\ \A i \in 1..2 : response[t].output[i].type = "message"
        /\ Len(response[t].output[1].content) = 3
        /\ Len(response[t].output[2].content) = 1
        /\ reply[t].text = <<"b", "c", "a">>

\* A Decimal without the trailing zeros of its coefficient: two Decimals
\* have the same value exactly when these are equal.
Normal(x) ==
    LET nonzero == {i \in DOMAIN x.digits : x.digits[i] # 0} IN
    IF nonzero = {} THEN Dec(<<0>>, 0)
    ELSE LET last == CHOOSE i \in nonzero : \A j \in nonzero : j <= i IN
         Dec(SubSeq(x.digits, 1, last), x.exp + Len(x.digits) - last)

SignificantDigits(x) == Len(Normal(x).digits)

\* The two products and the sum of the cost formula, without any rounding,
\* and (ptok * inprice + rtok * outprice) / 1000 without any rounding.
ExactParts(t) ==
    LET input == ExactTimes(reply[t].prompt_tokens, OPEN_INPUT_PRICE_PER_1K)
        output == ExactTimes(reply[t].response_tokens, OPEN_OUTPUT_PRICE_PER_1K)
    IN <<input, output, ExactPlus(input, output)>>
ExactCost(t) == Dec(ExactParts(t)[3].digits, ExactParts(t)[3].exp - 3)

\* C14 (CostSpec), the claim as stated: for every token count and every
\* configured price the cost is exactly
\* (prompt_tokens * input price + response_tokens * output price) / 1000,
\* and it is 0 when both prices are at their default.
C14_Original ==
    \A t \in Threads :
        Returned(t) =>
            /\ Normal(reply[t].total_cost) = Normal(ExactCost(t))
            /\ (OPEN_INPUT_PRICE_PER_1K = DefaultPrice
                   /\ OPEN_OUTPUT_PRICE_PER_1K = DefaultPrice)
                  => Normal(reply[t].total_cost) = Dec(<<0>>, 0)

\* C14 (CostSpec), amended: the cost is exactly
\* (prompt_tokens * input price + response_tokens * output price) / 1000
\* whenever the two products and their sum have at most DecimalPrecision
\* significant digits each (1000 and 500 tokens at 2.00 and 6.00 give
\* exactly 5); it never has more digits than that; and it is 0 when both
\* prices are at their default.
C14_CostExact ==
    \A t \in Threads :
        Returned(t) =>
            /\ (\A i \in 1..3 : SignificantDigits(ExactParts(t)[i]) <= DecimalPrecision)
                  => Normal(reply[t].total_cost) = Normal(ExactCost(t))
            /\ Len(reply[t].total_cost.digits) <= DecimalPrecision
            /\ (/\ OPEN_INPUT_PRICE_PER_1K = Dec(<<2, 0, 0>>, -2)
                /\ OPEN_OUTPUT_PRICE_PER_1K = Dec(<<6, 0, 0>>, -2)
                /\ reply[t].prompt_tokens = 1000 /\ reply[t].response_tokens = 500)
                  => Normal(reply[t].total_cost) = Dec(<<5>>, 0)
            /\ (OPEN_INPUT_PRICE_PER_1K = DefaultPrice
                   /\ OPEN_OUTPUT_PRICE_PER_1K = DefaultPrice)
                  => Normal(reply[t].total_cost) = Dec(<<0>>, 0)

\* A request answered with 200 whose row holds the cost 5 of 1000 and 500
\* tokens at the prices 2.00 and 6.00.
C14_Witness ==
    \E t \in Threads :
        /\ status[t] = "200"
        /\ OPEN_INPUT_PRICE_PER_1K = Dec(<<2, 0, 0>>, -2)
        /\ OPEN_OUTPUT_PRICE_PER_1K = Dec(<<6, 0, 0>>, -2)
        /\ \E i \in RowsOf(reqId[t]) :
              /\ conversations[i].prompt_tokens = 1000
              /\ conversations[i].response_tokens = 500
              /\ Normal(conversations[i].total_cost) = Dec(<<5>>, 0)

\* A thread whose request has been through enforce_rate_limit, admitted or
\* rejected, and has not been followed by another.
Evaluated(t) ==
    \/ pc[t] \in {"render", "generate", "persist", "respond"}
    \/ pc[t] = "done" /\ status[t] \notin {"401", "IndexError"}

\* C15 (SeqSpec): after every evaluation of enforce_rate_limit for a key at
\* time now, calls coming one at a time at non-decreasing times, the bucket
\* of the key holds only timestamps from now - RATE_LIMIT_WINDOW_SECONDS to
\* now, in non-decreasing order, at most RATE_LIMIT_REQUESTS of them, and
\* it holds every admission of the key in that range: only timestamps
\* older than now - RATE_LIMIT_WINDOW_SECONDS were dropped, one exactly that
\* old is kept and counts.
C15_BucketInvariant ==
    \A t \in Threads :
        Evaluated(t) =>
            LET bucket == BucketOf(t) IN
            /\ \A i \in DOMAIN bucket :
                  now[t] - RATE_LIMIT_WINDOW_SECONDS <= bucket[i] /\ bucket[i] <= now[t]
            /\ \A i, j \in DOMAIN bucket : i <= j => bucket[i] <= bucket[j]
            /\ Len(bucket) <= RATE_LIMIT_REQUESTS
            /\ bucket = admitted[client_ip[t]]

\* A call rejected with 429 by a bucket whose timestamps are exactly
\* RATE_LIMIT_WINDOW_SECONDS old.
C15_Witness ==
    \E t \in Threads :
        /\ pc[t] = "done" /\ status[t] = "429"
        /\ Len(BucketOf(t)) = RATE_LIMIT_REQUESTS
        /\ \A i \in DOMAIN BucketOf(t) :
              BucketOf(t)[i] = now[t] - RATE_LIMIT_WINDOW_SECONDS

\* A step of enforce_rate_limit, for a thread and the bucket of its key:
\* the loop drops the head, which is older than the window of the call; the
\* call ends in 429; the call records its timestamp.
Trims(t) ==
    /\ pc[t] = "rl_pop"
    /\ BucketOf(t) # <<>>
    /\ Head(BucketOf(t)) < now[t] - RATE_LIMIT_WINDOW_SECONDS
    /\ _rate_buckets'[client_ip[t]] = Tail(BucketOf(t))
Rejects(t) == pc[t] = "rl_check" /\ status'[t] = "429"
Records(t) == _rate_buckets'[client_ip[t]] = Append(BucketOf(t), now[t])

\* C16 (SeqSpec): over a call of enforce_rate_limit a bucket changes only
\* by the trimming of expired entries at its head and by one append.  The
\* step that rejects a call with 429 leaves every bucket as it is, so a
\* rejected call records nothing; a call that passed the check appends its
\* timestamp now to the bucket of its key, once, as it leaves
\* enforce_rate_limit; no step changes the bucket of another key than that
\* of the call taking it.
C16_RejectedRecordsNothing ==
    [][\A t \in Threads :
          /\ Rejects(t) => _rate_buckets' = _rate_buckets
          /\ pc[t] = "rl_append" /\ pc'[t] # "rl_append"
                => Records(t) /\ pc'[t] = "render"
          /\ pc[t] = pc'[t] \/ pc'[t] = "auth"
                \/ \A k \in ClientKeys \ {client_ip[t]} :
                      _rate_buckets'[k] = _rate_buckets[k]
          /\ (pc[t] # pc'[t] /\ pc'[t] # "auth")
                => \/ _rate_buckets'[client_ip[t]] = BucketOf(t)
                   \/ Trims(t)
                   \/ pc[t] = "rl_append" /\ Records(t)]_vars

\* A call rejected with 429 whose key keeps its full bucket, while the
\* other key has a timestamp of its own.
C16_Witness ==
    \E t \in Threads :
        /\ pc[t] = "done" /\ status[t] = "429"
        /\ Len(BucketOf(t)) = RATE_LIMIT_REQUESTS
        /\ \E k \in ClientKeys \ {client_ip[t]} : _rate_buckets[k] # <<>>

\* The place of a step of the handler in the order authenticate, rate-limit,
\* render, generate (with the cost), persist, respond.
StepOrder(at) ==
    CASE at = "auth" -> 1
      [] at \in {"rl_now", "rl_loop", "rl_head", "rl_pop", "rl_check", "rl_append"} -> 2
      [] at = "render" -> 3
      [] at = "generate" -> 4
      [] at = "persist" -> 5
      [] at = "respond" -> 6
      [] at = "done" -> 7
      [] OTHER -> 0

\* What holds of a request at every moment: at most one call of the
\* provider, made only past authentication and the action lookup; at most
\* one call of the store, made only after the provider returned a text that
\* is not empty; nothing of either for a request that ended in 401, 429 or
\* 400.
GatedCalls(t) ==
    /\ modelCalls[t] <= 1 /\ storeCalls[t] <= 1
    /\ modelCalls[t] = 1
          <=> pc[t] \in {"persist", "respond"} \/ status[t] \in {"APIError", "502", "500", "200"}
    /\ modelCalls[t] = 1
          => /\ ~(Truthy(ATFOOD_API_TOKEN) /\ Truthy(x_atfood_token[t])
                    /\ x_atfood_token[t] # ATFOOD_API_TOKEN)
             /\ payload[t].action \in PromptActions
    /\ storeCalls[t] = 1
          => modelCalls[t] = 1 /\ Returned(t) /\ reply[t].text # <<>>
    /\ status[t] \in {"401", "429", "400"}
          => modelCalls[t] = 0 /\ storeCalls[t] = 0 /\ RowsOf(reqId[t]) = {}
    /\ RowsOf(reqId[t]) # {} => storeCalls[t] = 1

\* What holds of every step of a request: it moves to the next step of the
\* order or ends the request; a failure ends it at once; an ended request
\* does nothing more.
OrderedStep(t) ==
    pc'[t] # pc[t] =>
        \/ pc'[t] = "auth" /\ pc[t] \in {"idle", "done"}
        \/ /\ pc[t] \notin {"idle", "done"}
           /\ \/ pc'[t] = "done" /\ status'[t] # "none"
              \/ /\ StepOrder(pc'[t]) \in {StepOrder(pc[t]), StepOrder(pc[t]) + 1}
                 /\ pc'[t] # "done"
                 /\ status'[t] = "none"

\* What lets a request into the steps render, generate and persist, and
\* what calls the provider and the store: the rate limiter is left by the
\* call that appends its timestamp, after a check that found the bucket
\* below the limit; the provider is called by the step generate alone, the
\* store by the step persist alone.
GatedStep(t) ==
    /\ (pc'[t] = "rl_append" /\ pc[t] # "rl_append")
          => pc[t] = "rl_check" /\ Len(BucketOf(t)) < RATE_LIMIT_REQUESTS
    /\ (pc'[t] = "render" /\ pc[t] # "render")
          => pc[t] = "rl_append" /\ Records(t)
    /\ (pc'[t] = "generate" /\ pc[t] # "generate")
          => pc[t] = "render" /\ payload[t].action \in PromptActions
    /\ (pc'[t] = "persist" /\ pc[t] # "persist")
          => pc[t] = "generate" /\ reply'[t].text # <<>>
    /\ modelCalls'[t] # modelCalls[t]
          => \/ pc'[t] = "auth" /\ modelCalls'[t] = 0
             \/ pc[t] = "generate" /\ modelCalls'[t] = modelCalls[t] + 1
    /\ storeCalls'[t] # storeCalls[t]
          => \/ pc'[t] = "auth" /\ storeCalls'[t] = 0
             \/ pc[t] = "persist" /\ storeCalls'[t] = storeCalls[t] + 1
    /\ Len(conversations') > Len(conversations) => \E u \in Threads : pc[u] = "persist"

\* C17 (Spec): the steps of a request run in the order authenticate,
\* rate-limit, render, generate, persist, respond, a failure ending the
\* request at once; the provider is called at most once, and only for a
\* request that passed authentication, rate limiting and the action lookup;
\* the store is written at most once, and only after a model output that is
\* not empty; a request that ends in 401, 429 or 400 has called neither.
C17_PipelineGating ==
    /\ [](\A t \in Threads : GatedCalls(t))
    /\ [][\A t \in Threads : OrderedStep(t) /\ GatedStep(t)]_vars

\* A request refused with 400 without a call of the provider, on a server
\* that has stored the conversation of an earlier request.
C17_Witness ==
    \E t \in Threads :
        /\ pc[t] = "done" /\ status[t] = "400"
        /\ modelCalls[t] = 0 /\ storeCalls[t] = 0
        /\ conversations # <<>>


\* The rows of the table without their user_id column.
WithoutUserId(rows) ==
    [i \in DOMAIN rows |-> [c \in DOMAIN rows[i] \ {"user_id"} |-> rows[i][c]]]

\* The last step of the order that a request with the given end went through.
LastStep(code) ==
    CASE code = "401" -> 1
      [] code \in {"429", "IndexError"} -> 2
      [] code = "400" -> 3
      [] code \in {"APIError", "502"} -> 4
      [] code = "500" -> 5
      [] code = "200" -> 6

\* The request of the second run goes no further than it went in the first,
\* and ends as it ended there: the same status, buckets, calls of the
\* provider and of the store, prompt, text, counts, cost, and rows but for
\* their user_id.
SameOutcome(t) ==
    (replay.run = 2 /\ InSequence(t)) =>
        /\ pc[t] # "done" => StepOrder(pc[t]) <= LastStep(Seen(t).status)
        /\ pc[t] = "done" =>
              /\ status[t] = Seen(t).status
              /\ _rate_buckets = Seen(t).buckets
              /\ limited = Seen(t).limited
              /\ modelCalls[t] = Seen(t).modelCalls
              /\ storeCalls[t] = Seen(t).storeCalls
              /\ response[t] = Seen(t).response
              /\ reply[t] = Seen(t).reply
              /\ WithoutUserId(conversations) = WithoutUserId(Seen(t).rows)

\* The user_id of the row a request stored: its header without surrounding
\* whitespace when that is not empty, the client address otherwise.
LabelledRow(t) ==
    \A i \in RowsOf(reqId[t]) :
        conversations[i].user_id =
            IF x_atfood_user[t] \notin {None, "", " "} THEN StripHeader(x_atfood_user[t])
            ELSE client_ip[t]

BucketsBefore(t) ==
    IF reqId[t] = 2 THEN ServedBuckets ELSE replay.seen[reqId[t] - 2].buckets

\* The ends of a request that went past authentication and the limit check.
PastLimitCheck == {"400", "APIError", "502", "500", "200"}

\* What an ended request left in the buckets: nothing but its key's bucket
\* changed; that bucket lost the timestamps older than the window and, for a
\* request past the limit check, gained the one timestamp of the request.
SlotConsumed(t) ==
    LET before == BucketsBefore(t)
        key == client_ip[t]
        kept == InWindow(before[key], now[t])
    IN  /\ \A k \in ClientKeys \ {key} : _rate_buckets[k] = before[k]
        /\ status[t] \in PastLimitCheck => _rate_buckets[key] = Append(kept, now[t])
        /\ status[t] = "429" =>
              _rate_buckets[key] = kept /\ Len(kept) >= RATE_LIMIT_REQUESTS
        /\ status[t] = "401" => _rate_buckets[key] = before[key]

\* C19 (TwinSpec): a request that ends in 400, in a failure of the provider,
\* in 502, in 500 or in 200 leaves exactly one timestamp, its own, in the
\* bucket of its client, where it counts toward the limit of the requests
\* that follow; a request rejected with 401 or 429 leaves none.
C19_SlotConsumed ==
    (pc[Worker] = "done" /\ InSequence(Worker))
        => /\ status[Worker] \in PastLimitCheck \cup {"401", "429"}
           /\ SlotConsumed(Worker)

\* A request is rejected with 429 because of the timestamp that the request
\* before it, which ended in 400, left in the bucket.
C19_Witness ==
    /\ replay.run = 1
    /\ reqId[Worker] = 3
    /\ pc[Worker] = "done"
    /\ status[Worker] = "429"
    /\ Len(replay.seen) >= 1
    /\ replay.seen[1].status = "400"
    /\ Len(_rate_buckets[client_ip[Worker]]) = RATE_LIMIT_REQUESTS


\* A step in which a call takes the head off the bucket of its key.
Pops(t) == pc[t] = "rl_pop" /\ _rate_buckets'[client_ip[t]] # BucketOf(t)

\* C20 (Spec): under any interleaving of the calls of enforce_rate_limit on
\* the threads of the pool, a call's trimming loop takes off the bucket only
\* a timestamp older than the window of that call, and it never indexes or
\* pops an empty bucket: no call ends in IndexError, every call ends admitted
\* or rejected with 429.
C20_TrimmingSafe ==
    /\ [](\A t \in Threads : status[t] # "IndexError")
    /\ [][\A t \in Threads :
            Pops(t) => /\ BucketOf(t) # <<>>
                       /\ Head(BucketOf(t)) < now[t] - RATE_LIMIT_WINDOW_SECONDS
                       /\ _rate_buckets'[client_ip[t]] = Tail(BucketOf(t))]_vars

====
